---------------------------- MODULE Spec2Model ----------------------------
(***************************************************************************)
(* bridge.py: WebSocket bridge for the Siglent SPS5000X power supply.      *)
(*                                                                         *)
(* The model covers the relay and correlation engine: the two handlers     *)
(* (handler_tcp, handler_usbtmc), the locally typed send path (_tcp_send,  *)
(* _usbtmc_send, started by _tui_dispatch_command), the gate _serial_lock, *)
(* the tracker (track_query, track_response) and the sink call             *)
(* (write_influx_point).                                                   *)
(*                                                                         *)
(* Text is a sequence of one-character strings, so that strip(), upper()   *)
(* and float() are computed, not assumed.  A float is the exact decimal    *)
(* [m, e] standing for m * 10^(-e), normalised (no trailing zero digit in  *)
(* the fraction), so "12.340" and 12.34 are the same value.                *)
(***************************************************************************)
EXTENDS Integers, Sequences, FiniteSets, TLC

(***************************************************************************)
(* Bounds of the model.                                                    *)
(***************************************************************************)
\* frames the clients may send and lines the operator may type, in all
MaxMsgs == 2
\* frames a client may have in flight towards its handler
MaxInbox == 1
\* answers of the instrument that may be faulty: empty, not a number, or missing
MaxGlitch == 1
\* calls the tracker harness (SpecUnit) makes to track_query
MaxUnit == 2

(***************************************************************************)
(* Text: str.strip(), str.upper(), "?" in cmd, float().                    *)
(***************************************************************************)
WS == {" ", "\t", "\n", "\r"}

RECURSIVE LStrip(_)
LStrip(s) == IF s # <<>> /\ Head(s) \in WS THEN LStrip(Tail(s)) ELSE s

RECURSIVE RStrip(_)
RStrip(s) ==
    IF s # <<>> /\ s[Len(s)] \in WS THEN RStrip(SubSeq(s, 1, Len(s) - 1)) ELSE s

Strip(s) == RStrip(LStrip(s))

LowerCase == <<"a","b","c","d","e","f","g","h","i","j","k","l","m",
               "n","o","p","q","r","s","t","u","v","w","x","y","z">>
UpperCase == <<"A","B","C","D","E","F","G","H","I","J","K","L","M",
               "N","O","P","Q","R","S","T","U","V","W","X","Y","Z">>

\* the uppercase letter of each lowercase letter
ToUpper ==
    [c \in {LowerCase[i] : i \in 1..Len(LowerCase)} |->
        UpperCase[CHOOSE i \in 1..Len(LowerCase) : LowerCase[i] = c]]

UpperChar(c) == IF c \in DOMAIN ToUpper THEN ToUpper[c] ELSE c

Upper(s) == [i \in 1..Len(s) |-> UpperChar(s[i])]

\* "?" in cmd
IsQuery(cmd) == \E i \in 1..Len(cmd) : cmd[i] = "?"

DigitChars == <<"0","1","2","3","4","5","6","7","8","9">>

IsDigit(c) == \E i \in 1..Len(DigitChars) : DigitChars[i] = c

DigitVal(c) == (CHOOSE i \in 1..Len(DigitChars) : DigitChars[i] = c) - 1

\* the number written by the first n digits of s
RECURSIVE DigitsUpTo(_, _)
DigitsUpTo(s, n) ==
    IF n = 0 THEN 0 ELSE DigitsUpTo(s, n - 1) * 10 + DigitVal(s[n])

DigitsToInt(s) == DigitsUpTo(s, Len(s))

RECURSIVE Normal(_, _)
Normal(m, e) ==
    IF e > 0 /\ m % 10 = 0 THEN Normal(m \div 10, e - 1) ELSE [m |-> m, e |-> e]

\* the value of the digits ds with the last e of them after the point (ds is
\* computed once)
Decimal(ds, e) == CHOOSE v \in {Normal(DigitsToInt(t), e) : t \in {ds}} : TRUE

\* float(s) for the decimal texts [sign] digits [. digits]: [ok |-> FALSE] stands
\* for ValueError.  (Exponents, "inf", "nan" and "_" do not occur in the replies
\* drawn here.)
ParseFloatNoSign(s) ==
    LET dots == {i \in 1..Len(s) : s[i] = "."}
        d    == IF dots = {} THEN Len(s) + 1 ELSE CHOOSE i \in dots : TRUE
        ip   == SubSeq(s, 1, d - 1)
        fp   == SubSeq(s, d + 1, Len(s))
        ok   == /\ Cardinality(dots) <= 1
                /\ Len(ip) + Len(fp) >= 1
                /\ \A i \in 1..Len(ip) : IsDigit(ip[i])
                /\ \A i \in 1..Len(fp) : IsDigit(fp[i])
    IN  IF ok THEN [ok |-> TRUE, val |-> Decimal(ip \o fp, Len(fp))]
        ELSE [ok |-> FALSE]

ParseFloatSigned(s) ==
    IF s # <<>> /\ s[1] \in {"+", "-"}
    THEN LET r == ParseFloatNoSign(Tail(s))
         IN  IF r.ok /\ s[1] = "-"
             THEN [ok |-> TRUE, val |-> [m |-> 0 - r.val.m, e |-> r.val.e]]
             ELSE r
    ELSE ParseFloatNoSign(s)

\* float(t): the text t is computed once, then parsed
ParseFloat(t) == CHOOSE r \in {ParseFloatSigned(s) : s \in {t}} : TRUE

(***************************************************************************)
(* MEAS_QUERIES and the six field names.                                   *)
(***************************************************************************)
Q_V1 == <<"M","E","A","S","U","R","E",":","V","O","L","T","A","G","E","?"," ","C","H","1">>
Q_I1 == <<"M","E","A","S","U","R","E",":","C","U","R","R","E","N","T","?"," ","C","H","1">>
Q_V2 == <<"M","E","A","S","U","R","E",":","V","O","L","T","A","G","E","?"," ","C","H","2">>
Q_I2 == <<"M","E","A","S","U","R","E",":","C","U","R","R","E","N","T","?"," ","C","H","2">>
Q_V3 == <<"M","E","A","S","U","R","E",":","V","O","L","T","A","G","E","?"," ","C","H","3">>
Q_I3 == <<"M","E","A","S","U","R","E",":","C","U","R","R","E","N","T","?"," ","C","H","3">>

\* the dict in insertion order: <<pattern, field name>>
MEAS_QUERIES ==
    << <<Q_V1, "ch1_v">>, <<Q_I1, "ch1_i">>,
       <<Q_V2, "ch2_v">>, <<Q_I2, "ch2_i">>,
       <<Q_V3, "ch3_v">>, <<Q_I3, "ch3_i">> >>

\* required, and the keys of _tui_values
Fields == {"ch1_v", "ch1_i", "ch2_v", "ch2_i", "ch3_v", "ch3_i"}

\* Python's None in _tui_values and _tui_client
None == [none |-> TRUE]

\* {}
EmptyDict == [k \in {} |-> None]

\* d[k] = v
DictPut(d, k, v) == [x \in (DOMAIN d) \cup {k} |-> IF x = k THEN v ELSE d[x]]

(***************************************************************************)
(* State.                                                                  *)
(***************************************************************************)
VARIABLES
    transport,       \* "ethernet" | "usbtmc": the branch main() took
    tui_active,      \* _tui_active after tui_start()
    influx,          \* whether _influx is set (the sink is enabled)
    serial_locked,   \* _serial_lock._locked
    waiters,         \* _serial_lock._waiters, in order of arrival
    pending_fields,  \* _pending_fields
    collected,       \* _collected
    tui_values,      \* _tui_values
    tui_client,      \* _tui_client
    emitted,         \* the calls of write_api.write: <<[fields, ok]>>
    pc,              \* where each handler / each _tui_dispatch_command task is
    cmd,             \* its local cmd
    line,            \* a handler's local line
    result,          \* what a finished _tui_send_func call returned
    open,            \* whether the client's WebSocket connection is open
    inbox,           \* frames sent by the client, not yet taken by "async for"
    outbox,          \* frames the handler sent to the client (ws.send)
    quota,           \* frames and typed lines that may still come
    tx,              \* the lines written to the instrument, in order
    instr,           \* queries the instrument received and has not answered
    wire,            \* reply lines the instrument sent, not yet read
    orphan,          \* f.read calls still blocked in a worker after a timeout
    glitches,        \* faulty answers the instrument may still give
    uq,              \* tracker harness: the commands given to track_query
    ul               \* tracker harness: the lines given to track_response

vars == <<transport, tui_active, influx, serial_locked, waiters, pending_fields,
          collected, tui_values, tui_client, emitted, pc, cmd, line, result,
          open, inbox, outbox, quota, tx, instr, wire, orphan, glitches,
          uq, ul>>

\* WebSocket sessions (one handler coroutine each) and _tui_dispatch_command tasks
Clients == {"c1", "c2"}
Locals == {"t1"}
Procs == Clients \cup Locals

\* peer[0] of the client's remote_address, the string _tui_client holds
Peer == [p \in Clients |-> [host |-> IF p = "c1" THEN "127.0.0.1" ELSE "::1"]]

(***************************************************************************)
(* track_query, track_response, write_influx_point.                        *)
(***************************************************************************)
RECURSIVE FirstMatch(_, _)
\* the loop over MEAS_QUERIES.items(): the index of the first pattern equal to
\* cmd_upper, 0 when the loop ends without a match
FirstMatch(cmd_upper, i) ==
    IF i > Len(MEAS_QUERIES) THEN 0
    ELSE IF cmd_upper = MEAS_QUERIES[i][1] THEN i
    ELSE FirstMatch(cmd_upper, i + 1)

\* track_query without the strip()
track_query_unstripped(c, pf) ==
    LET cmd_upper == Upper(c)
        i == FirstMatch(cmd_upper, 1)
    IN  IF i = 0 THEN pf ELSE Append(pf, MEAS_QUERIES[i][2])

track_query(c, pf) ==
    LET cmd_upper == Upper(Strip(c))
        i == FirstMatch(cmd_upper, 1)
    IN  IF i = 0 THEN pf ELSE Append(pf, MEAS_QUERIES[i][2])

\* the set literal in track_response
required == {"ch1_v", "ch1_i", "ch2_v", "ch2_i", "ch3_v", "ch3_i"}

\* write_influx_point with a loop that leaves the last field out of the point
write_influx_point_short(fields, em, on, ok) ==
    IF ~on THEN em
    ELSE Append(em, [fields |-> [k \in (DOMAIN fields) \ {"ch3_i"} |-> fields[k]],
                     ok |-> ok])

\* one call of write_api.write is recorded with its outcome; an exception of the
\* write is caught inside
write_influx_point(fields, em, on, ok) ==
    IF ~on THEN em ELSE Append(em, [fields |-> fields, ok |-> ok])

\* the globals track_response works on, as one record; active is _tui_active,
\* which it reads through tui_update_values
Tracker == [pending_fields |-> pending_fields, tui_values |-> tui_values,
            collected |-> collected, emitted |-> emitted,
            active |-> tui_active]

\* tui_update_values with "if not _tui_active:" clearing the values
tui_update_values_blank(active, tv) ==
    IF ~active THEN [k \in DOMAIN tv |-> None] ELSE tv

\* tui_update_values(): nothing without the display; with it rows 5 and 9 are
\* rewritten from _tui_values, which is read and left as it is
tui_update_values(active, tv) ==
    IF ~active THEN tv ELSE tv

\* track_response taking the newest pending entry: pop() for pop(0)
track_response_newest(l, st, on, ok) ==
    IF st.pending_fields = <<>> THEN st
    ELSE LET field_name == st.pending_fields[Len(st.pending_fields)]
             rest == SubSeq(st.pending_fields, 1, Len(st.pending_fields) - 1)
             r == ParseFloat(Strip(l))
         IN  IF ~r.ok THEN [st EXCEPT !.pending_fields = rest]
             ELSE LET tv == [st.tui_values EXCEPT ![field_name] = r.val]
                      col == DictPut(st.collected, field_name, r.val)
                  IN  IF ~on
                      THEN [st EXCEPT !.pending_fields = rest, !.tui_values = tv]
                      ELSE IF required \subseteq DOMAIN col
                      THEN [st EXCEPT !.pending_fields = rest, !.tui_values = tv,
                                      !.collected = EmptyDict,
                                      !.emitted = write_influx_point(col, st.emitted, on, ok)]
                      ELSE [st EXCEPT !.pending_fields = rest, !.tui_values = tv,
                                      !.collected = col]

\* track_response writing a point once five fields are there
track_response_early(l, st, on, ok) ==
    IF st.pending_fields = <<>> THEN st
    ELSE LET field_name == Head(st.pending_fields)
             rest == Tail(st.pending_fields)
             r == ParseFloat(Strip(l))
         IN  IF ~r.ok THEN [st EXCEPT !.pending_fields = rest]
             ELSE LET tv == [st.tui_values EXCEPT ![field_name] = r.val]
                      col == DictPut(st.collected, field_name, r.val)
                  IN  IF ~on
                      THEN [st EXCEPT !.pending_fields = rest, !.tui_values = tv]
                      ELSE IF Cardinality(DOMAIN col) >= 5
                      THEN [st EXCEPT !.pending_fields = rest, !.tui_values = tv,
                                      !.collected = EmptyDict,
                                      !.emitted = write_influx_point(col, st.emitted, on, ok)]
                      ELSE [st EXCEPT !.pending_fields = rest, !.tui_values = tv,
                                      !.collected = col]

\* track_response without "_collected = {}" after the write
track_response_keeps(l, st, on, ok) ==
    IF st.pending_fields = <<>> THEN st
    ELSE LET field_name == Head(st.pending_fields)
             rest == Tail(st.pending_fields)
             r == ParseFloat(Strip(l))
         IN  IF ~r.ok THEN [st EXCEPT !.pending_fields = rest]
             ELSE LET tv == [st.tui_values EXCEPT ![field_name] = r.val]
                      col == DictPut(st.collected, field_name, r.val)
                  IN  IF ~on
                      THEN [st EXCEPT !.pending_fields = rest, !.tui_values = tv]
                      ELSE IF required \subseteq DOMAIN col
                      THEN [st EXCEPT !.pending_fields = rest, !.tui_values = tv,
                                      !.collected = col,
                                      !.emitted = write_influx_point(col, st.emitted, on, ok)]
                      ELSE [st EXCEPT !.pending_fields = rest, !.tui_values = tv,
                                      !.collected = col]

\* track_response with the write's exception not caught: "_collected = {}" is
\* not reached after a failed write
track_response_raises(l, st, on, ok) ==
    IF st.pending_fields = <<>> THEN st
    ELSE LET field_name == Head(st.pending_fields)
             rest == Tail(st.pending_fields)
             r == ParseFloat(Strip(l))
         IN  IF ~r.ok THEN [st EXCEPT !.pending_fields = rest]
             ELSE LET tv == [st.tui_values EXCEPT ![field_name] = r.val]
                      col == DictPut(st.collected, field_name, r.val)
                  IN  IF ~on
                      THEN [st EXCEPT !.pending_fields = rest, !.tui_values = tv]
                      ELSE IF required \subseteq DOMAIN col
                      THEN [st EXCEPT !.pending_fields = rest, !.tui_values = tv,
                                      !.collected = IF ok THEN EmptyDict ELSE col,
                                      !.emitted = write_influx_point(col, st.emitted, on, ok)]
                      ELSE [st EXCEPT !.pending_fields = rest, !.tui_values = tv,
                                      !.collected = col]

\* track_response keeping the first value of a field: no overwrite
track_response_first(l, st, on, ok) ==
    IF st.pending_fields = <<>> THEN st
    ELSE LET field_name == Head(st.pending_fields)
             rest == Tail(st.pending_fields)
             r == ParseFloat(Strip(l))
         IN  IF ~r.ok THEN [st EXCEPT !.pending_fields = rest]
             ELSE LET tv == [st.tui_values EXCEPT ![field_name] = r.val]
                      col == IF field_name \in DOMAIN st.collected
                             THEN st.collected
                             ELSE DictPut(st.collected, field_name, r.val)
                  IN  IF ~on
                      THEN [st EXCEPT !.pending_fields = rest, !.tui_values = tv]
                      ELSE IF required \subseteq DOMAIN col
                      THEN [st EXCEPT !.pending_fields = rest, !.tui_values = tv,
                                      !.collected = EmptyDict,
                                      !.emitted = write_influx_point(col, st.emitted, on, ok)]
                      ELSE [st EXCEPT !.pending_fields = rest, !.tui_values = tv,
                                      !.collected = col]

\* track_response with the live values set under "if _influx:" only
track_response_sink_only(l, st, on, ok) ==
    IF st.pending_fields = <<>> THEN st
    ELSE LET field_name == Head(st.pending_fields)
             rest == Tail(st.pending_fields)
             r == ParseFloat(Strip(l))
         IN  IF ~r.ok THEN [st EXCEPT !.pending_fields = rest]
             ELSE LET tv == [st.tui_values EXCEPT ![field_name] = r.val]
                      col == DictPut(st.collected, field_name, r.val)
                  IN  IF ~on
                      THEN [st EXCEPT !.pending_fields = rest]
                      ELSE IF required \subseteq DOMAIN col
                      THEN [st EXCEPT !.pending_fields = rest, !.tui_values = tv,
                                      !.collected = EmptyDict,
                                      !.emitted = write_influx_point(col, st.emitted, on, ok)]
                      ELSE [st EXCEPT !.pending_fields = rest, !.tui_values = tv,
                                      !.collected = col]

track_response(l, st, on, ok) ==
    IF st.pending_fields = <<>> THEN st
    ELSE LET field_name == Head(st.pending_fields)
             rest == Tail(st.pending_fields)
             r == ParseFloat(Strip(l))
         IN  IF ~r.ok THEN [st EXCEPT !.pending_fields = rest]
             ELSE LET set == [st.tui_values EXCEPT ![field_name] = r.val]
                      tv == IF \A k \in DOMAIN set : set[k] # None
                            THEN tui_update_values(st.active, set)
                            ELSE set
                      col == DictPut(st.collected, field_name, r.val)
                  IN  IF ~on
                      THEN [st EXCEPT !.pending_fields = rest, !.tui_values = tv]
                      ELSE IF required \subseteq DOMAIN col
                      THEN [st EXCEPT !.pending_fields = rest, !.tui_values = tv,
                                      !.collected = EmptyDict,
                                      !.emitted = write_influx_point(col, st.emitted, on, ok)]
                      ELSE [st EXCEPT !.pending_fields = rest, !.tui_values = tv,
                                      !.collected = col]

\* the globals after the call (st is computed once)
SetTracker(st) ==
    \E s \in {st} :
        /\ pending_fields' = s.pending_fields
        /\ tui_values' = s.tui_values
        /\ collected' = s.collected
        /\ emitted' = s.emitted

(***************************************************************************)
(* The gate: asyncio.Lock as used by "async with _serial_lock".            *)
(***************************************************************************)
config == <<transport, tui_active, influx>>
gate == <<serial_locked, waiters>>
tracker == <<pending_fields, collected, tui_values, emitted>>
harness == <<uq, ul>>
link == <<tx, instr, wire, orphan, glitches>>
session == <<open, inbox, outbox, quota, tui_client>>

\* Lock.acquire() returns at once when the lock is free and nobody waits for it
LockFree == ~serial_locked /\ waiters = <<>>

\* "async with _serial_lock:" entered by p with its command c: p holds the gate,
\* or joins the waiters
Enter(p, c) ==
    /\ cmd' = [cmd EXCEPT ![p] = c]
    /\ IF LockFree
       THEN /\ serial_locked' = TRUE
            /\ waiters' = waiters
            /\ pc' = [pc EXCEPT ![p] = "write"]
       ELSE /\ serial_locked' = serial_locked
            /\ waiters' = Append(waiters, p)
            /\ pc' = [pc EXCEPT ![p] = "wait"]

\* Lock.release() wakes the first waiter, which then takes the lock
lock_wake(p) ==
    /\ pc[p] = "wait"
    /\ ~serial_locked
    /\ waiters # <<>> /\ Head(waiters) = p
    /\ serial_locked' = TRUE
    /\ waiters' = Tail(waiters)
    /\ pc' = [pc EXCEPT ![p] = "write"]
    /\ UNCHANGED <<config, tracker, harness, link, session, cmd, line, result>>

\* leaving the "async with" block: the lock is released, and the locals cmd and
\* line of the coroutine are dead from here on
Release(p) ==
    /\ serial_locked' = FALSE
    /\ waiters' = waiters
    /\ cmd' = [cmd EXCEPT ![p] = <<>>]
    /\ line' = [line EXCEPT ![p] = <<>>]

(***************************************************************************)
(* The instrument and the two transports.                                  *)
(***************************************************************************)
R_V1 == <<"1","2",".","3","4","0","\n">>
R_I1 == <<"1",".","5","0","0","\n">>
R_V2 == <<"5",".","0","1","0","\n">>
R_I2 == <<"0",".","2","5","0","\n">>
R_V3 == <<"0",".","0","0","0","\n">>
R_I3 == <<"0",".","0","0","0","\n">>
R_Empty == <<"\n">>
R_Err == <<"E","R","R","\n">>
R_Idn == <<"S","i","g","l","e","n","t","\n">>

\* the reading the supply gives for each measurement query
Reading == <<R_V1, R_I1, R_V2, R_I2, R_V3, R_I3>>

\* the instrument answers commands that hold a "?" (SCPI queries), and only those
Answerable(c) == \E i \in 1..Len(c) : c[i] = "?"

\* the reading the instrument gives to a measurement query (SCPI is
\* case-insensitive), its identification to any other query
Answer(c) ==
    LET i == FirstMatch(Upper(Strip(c)), 1)
    IN  IF i = 0 THEN R_Idn ELSE Reading[i]

\* what a faulty instrument may send instead
Faulty == {R_Empty, R_Err}

\* writer.write(...); await writer.drain()  /  f.write(...) in the executor
TransportWrite(c) ==
    /\ tx' = Append(tx, c \o <<"\n">>)
    /\ instr' = IF Answerable(c) THEN Append(instr, c) ELSE instr

\* the instrument answers its oldest unanswered query
instr_reply ==
    /\ instr # <<>>
    /\ wire' = Append(wire, Answer(Head(instr)))
    /\ instr' = Tail(instr)
    /\ UNCHANGED <<config, gate, tracker, harness, session, pc, cmd, line,
                   result, tx, orphan, glitches>>

\* the instrument answers it with an empty line or an error text
instr_garble ==
    /\ instr # <<>>
    /\ glitches > 0
    /\ glitches' = glitches - 1
    /\ \E r \in Faulty : wire' = Append(wire, r)
    /\ instr' = Tail(instr)
    /\ UNCHANGED <<config, gate, tracker, harness, session, pc, cmd, line,
                   result, tx, orphan>>

\* the instrument gives no reply to its oldest unanswered query
instr_silent ==
    /\ instr # <<>>
    /\ glitches > 0
    /\ glitches' = glitches - 1
    /\ instr' = Tail(instr)
    /\ UNCHANGED <<config, gate, tracker, harness, session, pc, cmd, line,
                   result, tx, wire, orphan>>

\* a worker thread whose f.read(4096) outlived its wait_for takes the next reply
orphan_read ==
    /\ orphan > 0
    /\ wire # <<>>
    /\ wire' = Tail(wire)
    /\ orphan' = orphan - 1
    /\ UNCHANGED <<config, gate, tracker, harness, session, pc, cmd, line,
                   result, tx, instr, glitches>>

\* ... or its read ends with an error, which nobody receives
orphan_end ==
    /\ orphan > 0
    /\ orphan' = orphan - 1
    /\ UNCHANGED <<config, gate, tracker, harness, session, pc, cmd, line,
                   result, tx, instr, wire, glitches>>

(***************************************************************************)
(* The clients of the WebSocket server.                                    *)
(***************************************************************************)
F_V1 == Q_V1
F_I1Low == <<" ","m","e","a","s","u","r","e",":","c","u","r","r","e","n","t","?"," ","c","h","1","\n">>
F_Idn == <<"*","I","D","N","?">>
F_Out == <<"O","U","T","P","U","T"," ","C","H","1",",","O","N">>
F_Blank == <<" ">>

\* the frames a client sends in Spec
Frames == {F_V1, F_I1Low, F_Idn, F_Out, F_Blank}

\* the lines the operator types in Spec: _tui_on_stdin strips them and drops
\* the empty ones
Typed == {Strip(f) : f \in Frames} \ {<<>>}

client_send(p, m) ==
    /\ pc[p] # "idle"
    /\ open[p]
    /\ quota > 0
    /\ Len(inbox[p]) < MaxInbox
    /\ inbox' = [inbox EXCEPT ![p] = Append(@, m)]
    /\ quota' = quota - 1
    /\ UNCHANGED <<config, gate, tracker, harness, link, pc, cmd, line, result,
                   open, outbox, tui_client>>

client_close(p) ==
    /\ pc[p] # "idle"
    /\ open[p]
    /\ open' = [open EXCEPT ![p] = FALSE]
    /\ UNCHANGED <<config, gate, tracker, harness, link, pc, cmd, line, result,
                   inbox, outbox, quota, tui_client>>

(***************************************************************************)
(* handler_tcp / handler_usbtmc: one coroutine per WebSocket connection.   *)
(* The two differ only in how the write and the read reach the instrument. *)
(***************************************************************************)
\* tui_update_client(peer, connected): _tui_client is set first; then the line
\* is printed (no display) or row 7 is rewritten (display)
tui_update_client(p, connected, active) ==
    tui_client' = IF connected THEN Peer[p] ELSE None

\* the "finally:" of the handler, after which the server closes the connection
SessionEnd(p) ==
    /\ tui_update_client(p, FALSE, tui_active)
    /\ open' = [open EXCEPT ![p] = FALSE]
    /\ inbox' = [inbox EXCEPT ![p] = <<>>]
    /\ pc' = [pc EXCEPT ![p] = "idle"]

\* a client connects: the handler starts and reports the peer
handler_connect(p) ==
    /\ pc[p] = "idle"
    /\ tui_update_client(p, TRUE, tui_active)
    /\ open' = [open EXCEPT ![p] = TRUE]
    /\ outbox' = [outbox EXCEPT ![p] = <<>>]
    /\ pc' = [pc EXCEPT ![p] = "recv"]
    /\ UNCHANGED <<config, gate, tracker, harness, link, cmd, line, result,
                   inbox, quota>>

\* "async for message in ws": cmd = message.strip(); an empty cmd is skipped,
\* any other enters "async with _serial_lock"
handler_recv(p) ==
    /\ pc[p] = "recv"
    /\ inbox[p] # <<>>
    /\ LET c == Strip(Head(inbox[p]))
       IN  IF c = <<>>
           THEN UNCHANGED <<gate, pc, cmd, outbox>>
           ELSE /\ Enter(p, c)
                /\ outbox' = [outbox EXCEPT
                                ![p] = Append(@, [cmd |-> c, frames |-> <<>>])]
    /\ inbox' = [inbox EXCEPT ![p] = Tail(@)]
    /\ UNCHANGED <<config, tracker, harness, link, line, result, open, quota,
                   tui_client>>

\* the client closed the connection and no frame is left: the loop ends
handler_closed(p) ==
    /\ pc[p] = "recv"
    /\ inbox[p] = <<>>
    /\ ~open[p]
    /\ SessionEnd(p)
    /\ UNCHANGED <<config, gate, tracker, harness, link, cmd, line, result,
                   outbox, quota>>

\* the write of cmd + "\n" succeeds
handler_write(p) ==
    /\ pc[p] = "write"
    /\ TransportWrite(cmd[p])
    /\ pc' = [pc EXCEPT ![p] = "track"]
    /\ UNCHANGED <<config, gate, tracker, harness, session, cmd, line, result,
                   wire, orphan, glitches>>

\* the write raises OSError: break, out of the "async with", into "finally"
handler_write_error(p) ==
    /\ pc[p] = "write"
    /\ Release(p)
    /\ SessionEnd(p)
    /\ UNCHANGED <<config, tracker, harness, link, result, outbox,
                   quota>>

\* handler_track without the test of "?": the read always follows
handler_track_always_reads(p) ==
    /\ pc[p] = "track"
    /\ pending_fields' = track_query(cmd[p], pending_fields)
    /\ pc' = [pc EXCEPT ![p] = "read"]
    /\ UNCHANGED <<gate, cmd, line>>
    /\ UNCHANGED <<config, collected, tui_values, emitted, harness, link,
                   session, result>>

\* track_query(cmd); if "?" in cmd the read is started, else the block ends
handler_track(p) ==
    /\ pc[p] = "track"
    /\ pending_fields' = track_query(cmd[p], pending_fields)
    /\ IF IsQuery(cmd[p])
       THEN /\ pc' = [pc EXCEPT ![p] = "read"]
            /\ UNCHANGED <<gate, cmd, line>>
       ELSE /\ pc' = [pc EXCEPT ![p] = "recv"]
            /\ Release(p)
    /\ UNCHANGED <<config, collected, tui_values, emitted, harness, link,
                   session, result>>

\* handler_read without "if line:": an empty line is sent on like any other
handler_read_forwards_empty(p) ==
    /\ pc[p] = "read"
    /\ wire # <<>>
    /\ wire' = Tail(wire)
    /\ pc' = [pc EXCEPT ![p] = "send"]
    /\ line' = [line EXCEPT ![p] = Strip(Head(wire))]
    /\ UNCHANGED <<gate, cmd>>
    /\ UNCHANGED <<config, tracker, harness, session, result, tx, instr,
                   orphan, glitches>>

\* handler_read with the 2 s wait_for of the local sends: no line, no frame,
\* and the block ends
handler_read_times_out(p) ==
    /\ pc[p] = "read"
    /\ IF wire = <<>>
       THEN /\ pc' = [pc EXCEPT ![p] = "recv"]
            /\ Release(p)
            /\ wire' = wire
       ELSE /\ wire' = Tail(wire)
            /\ LET l == Strip(Head(wire))
               IN  IF l = <<>>
                   THEN /\ pc' = [pc EXCEPT ![p] = "recv"]
                        /\ Release(p)
                   ELSE /\ pc' = [pc EXCEPT ![p] = "send"]
                        /\ line' = [line EXCEPT ![p] = l]
                        /\ UNCHANGED <<gate, cmd>>
    /\ UNCHANGED <<config, tracker, harness, session, result, tx, instr,
                   orphan, glitches>>

\* raw = await reader.readline() / f.read(4096); line = raw.decode().strip();
\* an empty line ends the block, any other is next sent to the client
handler_read(p) ==
    /\ pc[p] = "read"
    /\ wire # <<>>
    /\ wire' = Tail(wire)
    /\ LET l == Strip(Head(wire))
       IN  IF l = <<>>
           THEN /\ pc' = [pc EXCEPT ![p] = "recv"]
                /\ Release(p)
           ELSE /\ pc' = [pc EXCEPT ![p] = "send"]
                /\ line' = [line EXCEPT ![p] = l]
                /\ UNCHANGED <<gate, cmd>>
    /\ UNCHANGED <<config, tracker, harness, session, result, tx, instr,
                   orphan, glitches>>

\* handler_read_error leaving the lock held
handler_read_error_keeps_gate(p) ==
    /\ pc[p] = "read"
    /\ UNCHANGED gate
    /\ cmd' = [cmd EXCEPT ![p] = <<>>]
    /\ line' = [line EXCEPT ![p] = <<>>]
    /\ SessionEnd(p)
    /\ UNCHANGED <<config, tracker, harness, link, result, outbox, quota>>

\* the read raises OSError: break
handler_read_error(p) ==
    /\ pc[p] = "read"
    /\ Release(p)
    /\ SessionEnd(p)
    /\ UNCHANGED <<config, tracker, harness, link, result, outbox,
                   quota>>

\* handler_send with track_response(line) moved before ws.send(line)
handler_send_tracks_first(p) ==
    /\ pc[p] = "send"
    /\ open[p]
    /\ \E ok \in BOOLEAN : SetTracker(track_response(line[p], Tracker, influx, ok))
    /\ outbox' = [outbox EXCEPT
                    ![p][Len(outbox[p])].frames = Append(@, line[p])]
    /\ pc' = [pc EXCEPT ![p] = "resolve"]
    /\ UNCHANGED <<config, gate, harness, link, cmd, line, result,
                   open, inbox, quota, tui_client>>

\* await ws.send(line)
handler_send(p) ==
    /\ pc[p] = "send"
    /\ open[p]
    /\ outbox' = [outbox EXCEPT
                    ![p][Len(outbox[p])].frames = Append(@, line[p])]
    /\ pc' = [pc EXCEPT ![p] = "resolve"]
    /\ UNCHANGED <<config, gate, tracker, harness, link, cmd, line, result,
                   open, inbox, quota, tui_client>>

\* ws.send raises ConnectionClosed: break
handler_send_closed(p) ==
    /\ pc[p] = "send"
    /\ ~open[p]
    /\ Release(p)
    /\ SessionEnd(p)
    /\ UNCHANGED <<config, tracker, harness, link, result, outbox,
                   quota>>

\* track_response(line), the end of the block, back to "async for"
handler_resolve(p) ==
    /\ pc[p] = "resolve"
    /\ \E ok \in BOOLEAN : SetTracker(track_response(line[p], Tracker, influx, ok))
    /\ Release(p)
    /\ pc' = [pc EXCEPT ![p] = "recv"]
    /\ UNCHANGED <<config, harness, link, session, result>>

(***************************************************************************)
(* _tui_dispatch_command with _tcp_send / _usbtmc_send: one task per line  *)
(* the operator enters.                                                    *)
(***************************************************************************)
T_Timeout == <<"(","t","i","m","e","o","u","t",")">>
T_WriteError == <<"(","T","C","P"," ","e","r","r","o","r",")">>
T_UsbWriteError == <<"(","U","S","B","T","M","C"," ","e","r","r","o","r",")">>
T_Error == <<"(","e","r","r","o","r",")">>

\* a task that has not got its resp yet
NoResult == [done |-> FALSE, resp |-> <<>>]

\* the task is over: resp is what _tui_dispatch_command got
Return(t, resp) ==
    /\ result' = [result EXCEPT ![t] = [done |-> TRUE, resp |-> resp]]
    /\ pc' = [pc EXCEPT ![t] = "idle"]
    /\ Release(t)

\* Enter pressed on a non-empty line: ensure_future(_tui_dispatch_command(cmd))
tui_dispatch(t, c) ==
    /\ tui_active
    /\ pc[t] = "idle"
    /\ quota > 0
    /\ quota' = quota - 1
    /\ Enter(t, c)
    /\ result' = [result EXCEPT ![t] = NoResult]
    /\ UNCHANGED <<config, tracker, harness, link, line, open, inbox, outbox,
                   tui_client>>

send_write(t) ==
    /\ pc[t] = "write"
    /\ TransportWrite(cmd[t])
    /\ pc' = [pc EXCEPT ![t] = "track"]
    /\ UNCHANGED <<config, gate, tracker, harness, session, cmd, line, result,
                   wire, orphan, glitches>>

\* except OSError: return "(TCP error: ...)" / "(USBTMC error: ...)"
send_write_error(t) ==
    /\ pc[t] = "write"
    /\ Return(t, IF transport = "ethernet" THEN T_WriteError ELSE T_UsbWriteError)
    /\ UNCHANGED <<config, tracker, harness, link, session>>

\* track_query(cmd); a command without "?" returns ""
send_track(t) ==
    /\ pc[t] = "track"
    /\ pending_fields' = track_query(cmd[t], pending_fields)
    /\ IF IsQuery(cmd[t])
       THEN /\ pc' = [pc EXCEPT ![t] = "read"]
            /\ UNCHANGED <<gate, result, cmd, line>>
       ELSE Return(t, <<>>)
    /\ UNCHANGED <<config, collected, tui_values, emitted, harness, link,
                   session>>

\* the line arrives within the 2 s: resp = raw.decode().strip();
\* track_response(resp); return resp
send_read(t) ==
    /\ pc[t] = "read"
    /\ wire # <<>>
    /\ wire' = Tail(wire)
    /\ LET resp == Strip(Head(wire))
       IN  /\ \E ok \in BOOLEAN :
                SetTracker(track_response(resp, Tracker, influx, ok))
           /\ Return(t, resp)
    /\ UNCHANGED <<config, harness, session, tx, instr, orphan, glitches>>

\* send_timeout returning from inside the block without the lock's release
send_timeout_keeps_gate(t) ==
    /\ pc[t] = "read"
    /\ wire = <<>>
    /\ orphan' = IF transport = "usbtmc" THEN orphan + 1 ELSE orphan
    /\ result' = [result EXCEPT ![t] = [done |-> TRUE, resp |-> T_Timeout]]
    /\ pc' = [pc EXCEPT ![t] = "idle"]
    /\ UNCHANGED <<gate, cmd, line>>
    /\ UNCHANGED <<config, tracker, harness, session, tx, instr, wire,
                   glitches>>

\* asyncio.TimeoutError after 2 s without a line: return "(timeout)".  On USBTMC
\* the cancelled wait leaves f.read(4096) running in its worker thread.
send_timeout(t) ==
    /\ pc[t] = "read"
    /\ wire = <<>>
    /\ orphan' = IF transport = "usbtmc" THEN orphan + 1 ELSE orphan
    /\ Return(t, T_Timeout)
    /\ UNCHANGED <<config, tracker, harness, session, tx, instr, wire,
                   glitches>>

\* the read raises OSError, which _tui_dispatch_command turns into "(error: ...)"
send_read_error(t) ==
    /\ pc[t] = "read"
    /\ Return(t, T_Error)
    /\ UNCHANGED <<config, tracker, harness, link, session>>

(***************************************************************************)
(* The bridge: main() after setup, with the server running.                *)
(***************************************************************************)
InitRun ==
    /\ serial_locked = FALSE
    /\ waiters = <<>>
    /\ pending_fields = <<>>
    /\ collected = EmptyDict
    /\ tui_values = [k \in Fields |-> None]
    /\ emitted = <<>>
    /\ cmd = [p \in Procs |-> <<>>]
    /\ line = [p \in Procs |-> <<>>]
    /\ result = [t \in Locals |-> NoResult]
    /\ outbox = [p \in Clients |-> <<>>]
    /\ tx = <<>>
    /\ instr = <<>>
    /\ wire = <<>>
    /\ orphan = 0
    /\ uq = <<>>
    /\ ul = <<>>

Init ==
    /\ InitRun
    /\ transport \in {"ethernet", "usbtmc"}
    /\ tui_active \in BOOLEAN
    /\ influx \in BOOLEAN
    /\ pc = [p \in Procs |-> "idle"]
    /\ open = [p \in Clients |-> FALSE]
    /\ inbox = [p \in Clients |-> <<>>]
    /\ tui_client = None
    /\ quota = MaxMsgs
    /\ glitches = MaxGlitch

\* the steps of the bridge with the clients C connecting
Run(C) ==
    \/ \E p \in C : handler_connect(p)
    \/ \E p \in C, m \in Frames : client_send(p, m)
    \/ \E p \in C : client_close(p)
    \/ \E p \in C : handler_recv(p)
    \/ \E p \in C : handler_closed(p)
    \/ \E p \in C \cup Locals : lock_wake(p)
    \/ \E p \in C : handler_write(p)
    \/ \E p \in C : handler_write_error(p)
    \/ \E p \in C : handler_track(p)
    \/ \E p \in C : handler_read(p)
    \/ \E p \in C : handler_read_error(p)
    \/ \E p \in C : handler_send(p)
    \/ \E p \in C : handler_send_closed(p)
    \/ \E p \in C : handler_resolve(p)
    \/ \E t \in Locals, c \in Typed : tui_dispatch(t, c)
    \/ \E t \in Locals : send_write(t)
    \/ \E t \in Locals : send_write_error(t)
    \/ \E t \in Locals : send_track(t)
    \/ \E t \in Locals : send_read(t)
    \/ \E t \in Locals : send_timeout(t)
    \/ \E t \in Locals : send_read_error(t)
    \/ instr_reply
    \/ instr_garble
    \/ instr_silent
    \/ orphan_read
    \/ orphan_end

Next == Run(Clients)

Spec == Init /\ [][Next]_vars

(***************************************************************************)
(* A polling client: the web application asks for the six measurements in  *)
(* turn, then starts over.  SpecPoll starts with that client connected and *)
(* its frames received by the server; the client and the operator may add   *)
(* MaxExtra commands.                                                      *)
(***************************************************************************)
PollScript == <<Q_V1, Q_I1, Q_V2, Q_I2, Q_V3, Q_I3, Q_V1>>

\* frames and typed lines besides the polling client's
MaxExtra == 1

InitPoll ==
    /\ InitRun
    /\ transport \in {"ethernet", "usbtmc"}
    /\ tui_active \in BOOLEAN
    /\ influx = TRUE
    /\ pc = [p \in Procs |-> IF p = "c1" THEN "recv" ELSE "idle"]
    /\ open = [p \in Clients |-> p = "c1"]
    /\ inbox = [p \in Clients |-> IF p = "c1" THEN PollScript ELSE <<>>]
    /\ tui_client = Peer["c1"]
    /\ quota = MaxExtra
    /\ glitches = MaxGlitch

\* one session, as the web application opens it
NextPoll == Run({"c1"})

SpecPoll == InitPoll /\ [][NextPoll]_vars

(***************************************************************************)
(* The tracker alone: calls of track_query followed by calls of            *)
(* track_response, on commands and lines drawn from UnitCmds and UnitLines.*)
(***************************************************************************)
U_V2Mixed == <<"\t","M","e","a","s","u","r","e",":","V","o","l","t","a","g","e","?"," ","C","h","2"," ">>
U_V4 == <<"M","E","A","S","U","R","E",":","V","O","L","T","A","G","E","?"," ","C","H","4">>
U_V1Double == <<"M","E","A","S","U","R","E",":","V","O","L","T","A","G","E","?"," "," ","C","H","1">>
U_V1Long == <<"M","E","A","S","U","R","E",":","V","O","L","T","A","G","E","?"," ","C","H","1","0">>
U_Neg == <<"-","0",".","5","0">>
U_Unit == <<"1",".","5","V">>

UnitCmds == {Q_V1, Q_I1, Q_V2, Q_I2, Q_V3, Q_I3, F_I1Low, U_V2Mixed, U_V4,
             U_V1Double, U_V1Long, F_Idn, F_Out}

UnitLines == {R_V1, U_Neg, U_Unit, <<>>}

unit_track_query(c) ==
    /\ ul = <<>>
    /\ Len(uq) < MaxUnit
    /\ uq' = Append(uq, c)
    /\ pending_fields' = track_query(c, pending_fields)
    /\ UNCHANGED <<config, gate, collected, tui_values, emitted, link, session,
                   pc, cmd, line, result, ul>>

unit_track_response(l) ==
    /\ Len(ul) < Len(uq)
    /\ ul' = Append(ul, l)
    /\ \E ok \in BOOLEAN : SetTracker(track_response(l, Tracker, influx, ok))
    /\ UNCHANGED <<config, gate, link, session, pc, cmd, line, result, uq>>

InitUnit ==
    /\ InitRun
    /\ transport = "ethernet"
    /\ tui_active = FALSE
    /\ influx \in BOOLEAN
    /\ pc = [p \in Procs |-> "idle"]
    /\ open = [p \in Clients |-> FALSE]
    /\ inbox = [p \in Clients |-> <<>>]
    /\ tui_client = None
    /\ quota = 0
    /\ glitches = 0

NextUnit ==
    \/ \E c \in UnitCmds : unit_track_query(c)
    \/ \E l \in UnitLines : unit_track_response(l)

SpecUnit == InitUnit /\ [][NextUnit]_vars

(***************************************************************************)
(* The bridge with its scheduling (SpecFair): one session and the operator.*)
(* The event loop runs every coroutine that is ready, Lock.release() wakes *)
(* the first waiter, and a transport write or read that was started ends:  *)
(* it returns, raises, or (local sends) times out.  Nothing is assumed of  *)
(* the clients, the operator or the instrument.                            *)
(***************************************************************************)
InitFair ==
    /\ InitRun
    /\ transport \in {"ethernet", "usbtmc"}
    /\ tui_active = TRUE
    /\ influx \in BOOLEAN
    /\ pc = [p \in Procs |-> "idle"]
    /\ open = [p \in Clients |-> FALSE]
    /\ inbox = [p \in Clients |-> <<>>]
    /\ tui_client = None
    /\ quota = MaxMsgs
    /\ glitches = MaxGlitch

NextFair == Run({"c1"})

Fairness ==
    /\ \A p \in Procs : WF_vars(lock_wake(p))
    /\ WF_vars(handler_write("c1") \/ handler_write_error("c1"))
    /\ WF_vars(handler_track("c1"))
    /\ WF_vars(handler_read("c1") \/ handler_read_error("c1"))
    /\ WF_vars(handler_send("c1") \/ handler_send_closed("c1"))
    /\ WF_vars(handler_resolve("c1"))
    /\ \A t \in Locals :
          /\ WF_vars(send_write(t) \/ send_write_error(t))
          /\ WF_vars(send_track(t))
          /\ WF_vars(send_read(t) \/ send_timeout(t) \/ send_read_error(t))

SpecFair == InitFair /\ [][NextFair]_vars /\ Fairness

(***************************************************************************)
(* Properties.                                                             *)
(***************************************************************************)
\* the positions of a coroutine inside "async with _serial_lock"
InSection == {"write", "track", "read", "send", "resolve"}

HasQuestionMark(c) == \E i \in 1..Len(c) : c[i] = "?"

NotANumber(l) == ~ParseFloat(Strip(l)).ok

\* the value of the reading the instrument gives for field f
FieldReading(f) ==
    ParseFloat(Strip(Reading[CHOOSE i \in 1..Len(MEAS_QUERIES) :
                                 MEAS_QUERIES[i][2] = f])).val

\* the gate alone: at most one coroutine is inside the block
GateExclusive == Cardinality({p \in Procs : pc[p] \in InSection}) <= 1

\* C1: at most one write-then-optional-read sequence is in progress on the
\* transport at any time; a read that is still running belongs to a sequence
\* in progress.
C1_OneSequenceInFlight ==
    Cardinality({p \in Procs : pc[p] \in InSection}) + orphan <= 1

\* C2: every value stored under a field name, in the live values or in the
\* Partial Record, is the instrument's reply to a query for that field (in
\* Spec the readings of the fields asked for differ, so a value names its query).
C2_ValueBelongsToField ==
    \A f \in Fields :
        /\ tui_values[f] = None \/ tui_values[f] = FieldReading(f)
        /\ f \in DOMAIN collected => collected[f] = FieldReading(f)

\* the oldest entry is removed and nothing else of the tracker changes
SlotConsumed ==
    /\ pending_fields' = Tail(pending_fields)
    /\ UNCHANGED <<collected, tui_values, emitted>>

\* C6: on every send path, when the queue is not empty and the line read for a
\* query is not a number (an empty line included), handling that line removes
\* exactly the oldest queue entry and changes neither the Partial Record nor the
\* live values, and emits nothing.
C6_NonNumericConsumesSlot ==
    [][\A p \in Procs :
        /\ (/\ p \in Clients
            /\ pc[p] = "read" /\ wire # <<>> /\ wire' = Tail(wire)
            /\ pc'[p] = "recv"
            /\ pending_fields # <<>>) => SlotConsumed
        /\ (/\ p \in Clients
            /\ pc[p] \in {"send", "resolve"} /\ pc'[p] \in {"recv", "idle"}
            /\ NotANumber(line[p])
            /\ pending_fields # <<>>) => SlotConsumed
        /\ (/\ p \in Locals
            /\ pc[p] = "read" /\ wire # <<>> /\ wire' = Tail(wire)
            /\ pc'[p] = "idle"
            /\ NotANumber(Head(wire))
            /\ pending_fields # <<>>) => SlotConsumed]_vars

\* C8: on every send path a command without "?" never reaches the transport
\* read: no coroutine is at the read, or past it, with such a command.
C8_NoReadWithoutQuestionMark ==
    \A p \in Procs :
        pc[p] \in {"read", "send", "resolve"} => HasQuestionMark(cmd[p])

\* a command without "?" has been written, and its block is about to end
C8_Witness ==
    \E p \in Procs :
        /\ pc[p] = "track"
        /\ ~HasQuestionMark(cmd[p])
        /\ tx # <<>> /\ tx[Len(tx)] = cmd[p] \o <<"\n">>

C10_IOErrorEndsSession ==
    /\ [](serial_locked => \E p \in Procs : pc[p] \in InSection)
    /\ [][\A p \in Clients :
            (pc[p] \in {"write", "read"} /\ pc'[p] = "idle") =>
                /\ ~serial_locked'
                /\ waiters' = waiters
                /\ tui_client' = None
                /\ ~open'[p]
                /\ inbox'[p] = <<>>
                /\ tx' = tx /\ wire' = wire
                /\ UNCHANGED <<pending_fields, collected, tui_values, emitted>>]_vars

\* a session ended on a write error (the command it took was never written),
\* and another coroutine holds the gate
C10_Witness ==
    \E p \in Clients :
        /\ pc[p] = "idle"
        /\ outbox[p] # <<>>
        /\ \A i \in 1..Len(tx) : tx[i] # outbox[p][Len(outbox[p])].cmd \o <<"\n">>
        /\ \E q \in Procs \ {p} : pc[q] = "write"

(***************************************************************************)
(* Properties of the tracker alone (SpecUnit).                             *)
(***************************************************************************)
\* the field name the six patterns stand for, "" for any other text
ExpectedField(c) ==
    LET u == Upper(Strip(c))
    IN  CASE u = Q_V1 -> "ch1_v" [] u = Q_I1 -> "ch1_i"
          [] u = Q_V2 -> "ch2_v" [] u = Q_I2 -> "ch2_i"
          [] u = Q_V3 -> "ch3_v" [] u = Q_I3 -> "ch3_i"
          [] OTHER -> ""

RECURSIVE TrackedFields(_)
\* the field names of the tracked queries among the commands q, in order
TrackedFields(q) ==
    IF q = <<>> THEN <<>>
    ELSE LET f == ExpectedField(Head(q))
         IN  (IF f = "" THEN <<>> ELSE <<f>>) \o TrackedFields(Tail(q))

SetMax(S) == CHOOSE x \in S : \A y \in S : y <= x

\* C3: after the tracked queries of uq and then the replies of ul, reply i went
\* to the field of query i whether or not it is a number: the queue holds the
\* fields of the queries not yet answered, and each live value is the last
\* number among the replies to the queries for its field.
C3_RepliesPairInOrder ==
    LET fs == TrackedFields(uq)
        n == IF Len(ul) < Len(fs) THEN Len(ul) ELSE Len(fs)
    IN  /\ pending_fields = SubSeq(fs, n + 1, Len(fs))
        /\ \A f \in Fields :
              LET hits == {i \in 1..n : fs[i] = f /\ ~NotANumber(ul[i])}
              IN  tui_values[f] = IF hits = {} THEN None
                                  ELSE ParseFloat(Strip(ul[SetMax(hits)])).val

\* two tracked queries for different fields, the first reply not a number, the
\* second a number: it is under the second field
C3_Witness ==
    /\ Len(uq) = 2 /\ Len(ul) = 2
    /\ Len(TrackedFields(uq)) = 2
    /\ TrackedFields(uq)[1] # TrackedFields(uq)[2]
    /\ NotANumber(ul[1]) /\ ~NotANumber(ul[2])
    /\ tui_values[TrackedFields(uq)[2]] # None

\* C4: track_query appends exactly the mapped field name when the command,
\* stripped and uppercased, is one of the six patterns, and leaves the queue
\* as it is for any other text.
C4_TrackQueryEnqueues ==
    [][uq' # uq =>
        LET f == ExpectedField(uq'[Len(uq')])
        IN  pending_fields' = IF f = "" THEN pending_fields
                              ELSE Append(pending_fields, f)]_vars

\* a lowercase query with blanks around it was enqueued, a near miss was not
C4_Witness ==
    /\ uq = <<F_I1Low, U_V1Double>>
    /\ pending_fields = <<"ch1_i">>

(***************************************************************************)
(* Properties of a polling session (SpecPoll).                             *)
(***************************************************************************)
\* C5: a point is written exactly when the added field completes the six: a
\* step that writes writes one point, which holds the six fields, the ones
\* collected so far with the one just added, and leaves the Partial Record
\* empty; no step leaves six fields in the Partial Record, and a step that
\* writes nothing loses no field of it.
C5_EmitIffComplete ==
    /\ [](~(required \subseteq DOMAIN collected))
    /\ [][emitted' # emitted =>
            /\ Len(emitted') = Len(emitted) + 1
            /\ SubSeq(emitted', 1, Len(emitted)) = emitted
            /\ pending_fields # <<>>
            /\ LET r == emitted'[Len(emitted')].fields
                   f == Head(pending_fields)
               IN  /\ DOMAIN r = required
                   /\ DOMAIN r = (DOMAIN collected) \cup {f}
                   /\ \A k \in DOMAIN collected : k # f => r[k] = collected[k]
            /\ collected' = EmptyDict]_vars
    /\ [][emitted' = emitted =>
            \A k \in DOMAIN collected : k \in DOMAIN collected']_vars

\* a point was written and the next cycle has begun
C5_Witness ==
    /\ Len(emitted) = 1
    /\ DOMAIN collected = {"ch1_v"}

\* the six replies of the sequence, as the client receives them
Replies7 == << <<"1","2",".","3","4","0">>, <<"1",".","5","0","0">>,
               <<"5",".","0","1","0">>, <<"0",".","2","5","0">>,
               <<"0",".","0","0","0">>, <<"0",".","0","0","0">> >>

Record7 ==
    [ch1_v |-> [m |-> 1234, e |-> 2], ch1_i |-> [m |-> 15, e |-> 1],
     ch2_v |-> [m |-> 501, e |-> 2], ch2_i |-> [m |-> 25, e |-> 2],
     ch3_v |-> [m |-> 0, e |-> 0], ch3_i |-> [m |-> 0, e |-> 0]]

\* the six queries were relayed for c1, nothing else was written, and each was
\* answered by the reply of the sequence
Sequence7Done ==
    /\ influx
    /\ pc["c1"] = "recv"
    /\ tx = [i \in 1..6 |-> PollScript[i] \o <<"\n">>]
    /\ outbox["c1"] = [i \in 1..6 |-> [cmd |-> PollScript[i],
                                       frames |-> <<Replies7[i]>>]]

\* C7: from an empty queue and an empty Partial Record, the six queries, each
\* answered in turn by "12.340", "1.500", "5.010", "0.250", "0.000", "0.000",
\* give exactly one record, {ch1_v: 12.34, ch1_i: 1.5, ch2_v: 5.01, ch2_i: 0.25,
\* ch3_v: 0.0, ch3_i: 0.0}, and the Partial Record is empty right after.
C7_SixRepliesOneRecord ==
    Sequence7Done =>
        /\ Len(emitted) = 1
        /\ emitted[1].fields = Record7
        /\ collected = EmptyDict
        /\ pending_fields = <<>>

C7_Witness == Sequence7Done /\ Len(emitted) = 1

(***************************************************************************)
(* Properties of the timeout, of a silent instrument and of the tracker's  *)
(* state (Spec).                                                           *)
(***************************************************************************)
\* l is what the instrument sends, stripped, in reply to the command c: its
\* answer, or the error text of a faulty instrument
ProperReply(c, l) == l = Strip(Answer(c)) \/ l \in {Strip(r) : r \in Faulty}

\* every frame a client got is the instrument's reply to the command it was
\* sent for
FramesAnswerCommands ==
    \A p \in Clients : \A i \in 1..Len(outbox[p]) :
        \A j \in 1..Len(outbox[p][i].frames) :
            ProperReply(outbox[p][i].cmd, outbox[p][i].frames[j])

\* the step of a local send that ends by the timeout
TimeoutStepRecovers ==
    [][\A t \in Locals :
        (pc[t] = "read" /\ pc'[t] = "idle" /\ wire = <<>> /\ wire' = <<>>
            /\ result'[t].resp = T_Timeout) =>
            /\ ~serial_locked'
            /\ waiters' = waiters
            /\ tx' = tx /\ instr' = instr
            /\ UNCHANGED <<open, inbox, outbox, tui_client>>]_vars

\* C11: when the reply wait of a locally typed query times out, the send
\* returns "(timeout)", the gate is released and the transport is left as it is
\* (nothing written, nothing read, no session ended); and the relay goes on as
\* before: with the last local send timed out, the frames the clients got still
\* answer their commands.
C11_TimeoutRecovered ==
    /\ TimeoutStepRecovers
    /\ [](\A t \in Locals : result[t].resp = T_Timeout => FramesAnswerCommands)

\* C12: a relayed query that was written holds the gate until the transport
\* yields a line or an error: while its handler waits for the line the lock is
\* held by it, nothing is written, and every coroutine queued behind it, a
\* local one with its 2 s timeout included, stays queued; the wait ends only by
\* a line taken from the transport or by the read's error.
C12_SilentInstrumentStallsGate ==
    /\ [](\A p \in Clients : pc[p] = "read" =>
             /\ serial_locked
             /\ \A q \in Procs \ {p} : pc[q] \notin InSection)
    /\ [][\A p \in Clients : pc[p] = "read" =>
             \/ /\ pc'[p] = "read"
                /\ serial_locked'
                /\ tx' = tx
                /\ \A q \in Procs : pc[q] = "wait" => pc'[q] = "wait"
             \/ /\ wire # <<>> /\ wire' = Tail(wire)
                /\ pc'[p] \in {"send", "recv"}
             \/ /\ pc'[p] = "idle" /\ wire' = wire]_vars

\* the instrument gave no reply to a relayed query, and the operator's command
\* is queued behind it
C12_Witness ==
    /\ pc["c1"] = "read"
    /\ instr = <<>> /\ wire = <<>> /\ orphan = 0
    /\ pc["t1"] = "wait" /\ waiters = <<"t1">>

(***************************************************************************)
(* Properties of the record (SpecPoll).                                    *)
(***************************************************************************)
\* C13: the keys of the Partial Record are always among the six field names,
\* and every record handed to the sink has exactly the six.
C13_RecordKeys ==
    /\ DOMAIN collected \subseteq {"ch1_v", "ch1_i", "ch2_v", "ch2_i", "ch3_v", "ch3_i"}
    /\ \A i \in 1..Len(emitted) :
          DOMAIN emitted[i].fields = {"ch1_v", "ch1_i", "ch2_v", "ch2_i", "ch3_v", "ch3_i"}

\* a record went to the sink, and the Partial Record is being filled again
C13_Witness ==
    /\ emitted # <<>>
    /\ DOMAIN emitted[1].fields = Fields
    /\ collected # EmptyDict

\* the tracker's globals as track_response finds them with _tui_active negated
TrackerOtherDisplay == [Tracker EXCEPT !.active = ~tui_active]

\* C14: the relay does the same with and without the display: _tui_active never
\* changes, and each step of a session that passes a function reading it (the
\* connect and the end of the session through tui_update_client, the reply
\* through track_response and tui_update_values) leaves _tui_client, the queue,
\* the Partial Record, the live values and the emitted records as the same
\* functions give them with _tui_active negated, and writes and sends nothing.
C14_DisplayDoesNotMatter ==
    [][/\ tui_active' = tui_active
       /\ \A p \in Clients :
            /\ (pc[p] = "idle" /\ pc'[p] = "recv") =>
                  /\ tui_update_client(p, TRUE, ~tui_active)
                  /\ UNCHANGED <<tracker, tx>>
            /\ (pc[p] # "idle" /\ pc'[p] = "idle") =>
                  /\ tui_update_client(p, FALSE, ~tui_active)
                  /\ UNCHANGED <<tracker, tx, outbox>>
            /\ (pc[p] = "resolve" /\ pc'[p] = "recv") =>
                  /\ \E ok \in BOOLEAN :
                        SetTracker(track_response(line[p], TrackerOtherDisplay,
                                                  influx, ok))
                  /\ UNCHANGED <<tui_client, tx, outbox>>]_vars

\* without the display, the six values are there and a record was written
C14_Witness ==
    /\ ~tui_active
    /\ \A f \in Fields : tui_values[f] # None
    /\ Len(emitted) = 1
    /\ pc["c1"] = "recv"

(***************************************************************************)
(* Properties of the queue, of the replies and of the order of the steps   *)
(* (Spec).                                                                 *)
(***************************************************************************)
\* C15: whenever the gate is free the Pending Field Queue is empty: the entry
\* of a tracked query is gone when the block that enqueued it ends, whatever
\* the exit (reply, empty reply, read error, client closed, timeout).
C15_QueueEmptyWhenGateFree ==
    ~serial_locked => pending_fields = <<>>

\* C16: every reply line delivered to a caller is the instrument's reply to the
\* query that caller wrote in the same block: the line a handler sends to its
\* client answers the handler's command, and the line a local send returns
\* answers the operator's command; the late reply to a timed-out query is never
\* delivered for a later one.
C16_ReplyGoesToItsCaller ==
    [][/\ \A p \in Clients :
            (pc[p] = "send" /\ pc'[p] = "resolve") => ProperReply(cmd[p], line[p])
       /\ \A t \in Locals :
            (pc[t] = "read" /\ pc'[t] = "idle" /\ wire # <<>>
                /\ wire' = Tail(wire)) =>
                    ProperReply(cmd[t], result'[t].resp)]_vars

\* the frames sent for the command a handler is working on
FramesSent(p) == outbox[p][Len(outbox[p])].frames

\* C17: within one relayed command the steps come in this order, all with the
\* gate held: the write; then track_query, which alone enqueues, so a field is
\* enqueued only after its command was written; then, for a query only, the
\* read; then the frame to the client; then track_response; and the gate is
\* released by the step that ends the block, not before.
C17_StepsInOrder ==
    /\ [](\A p \in Clients : pc[p] \in InSection => serial_locked)
    /\ [][\A p \in Clients : (pc[p] \in InSection /\ pc'[p] # pc[p]) =>
            /\ pc[p] = "write" =>
                  /\ UNCHANGED <<tracker, wire, outbox>>
                  /\ \/ /\ pc'[p] = "track" /\ serial_locked'
                        /\ tx' = Append(tx, cmd[p] \o <<"\n">>)
                     \/ pc'[p] = "idle" /\ tx' = tx
            /\ pc[p] = "track" =>
                  /\ tx[Len(tx)] = cmd[p] \o <<"\n">>
                  /\ pending_fields' =
                        IF ExpectedField(cmd[p]) = "" THEN pending_fields
                        ELSE Append(pending_fields, ExpectedField(cmd[p]))
                  /\ UNCHANGED <<collected, tui_values, emitted, tx, wire, outbox>>
                  /\ IF HasQuestionMark(cmd[p])
                     THEN pc'[p] = "read" /\ serial_locked'
                     ELSE pc'[p] = "recv" /\ ~serial_locked'
            /\ pc[p] = "read" =>
                  /\ UNCHANGED <<tracker, tx, outbox>>
                  /\ FramesSent(p) = <<>>
                  /\ \/ /\ pc'[p] = "send" /\ serial_locked'
                        /\ wire' = Tail(wire) /\ line'[p] = Strip(Head(wire))
                     \/ pc'[p] = "recv" /\ wire' = Tail(wire) /\ ~serial_locked'
                     \/ pc'[p] = "idle" /\ wire' = wire /\ ~serial_locked'
            /\ pc[p] = "send" =>
                  /\ UNCHANGED <<tracker, tx, wire>>
                  /\ \/ /\ pc'[p] = "resolve" /\ serial_locked'
                        /\ outbox'[p][Len(outbox[p])].frames = <<line[p]>>
                     \/ pc'[p] = "idle" /\ outbox' = outbox /\ ~serial_locked'
            /\ pc[p] = "resolve" =>
                  /\ FramesSent(p) = <<line[p]>>
                  /\ UNCHANGED <<tx, wire, outbox>>
                  /\ pc'[p] = "recv" /\ ~serial_locked']_vars
    /\ [][Len(pending_fields') > Len(pending_fields) =>
            \E q \in Procs : pc[q] = "track" /\ pc'[q] # "track"
                             /\ tx[Len(tx)] = cmd[q] \o <<"\n">>]_vars

\* the reply to a tracked query was forwarded, and track_response is still to
\* come
C17_Witness ==
    \E p \in Clients :
        /\ pc[p] = "resolve"
        /\ pending_fields = <<ExpectedField(cmd[p])>>
        /\ FramesSent(p) = <<Strip(Answer(cmd[p]))>>
        /\ serial_locked

(***************************************************************************)
(* Liveness of the gate (SpecFair).                                        *)
(***************************************************************************)
\* C18: when every transport write and read that is started ends (returns,
\* fails or times out), every coroutine that asks for the gate gets it and
\* every holder gives it back; no exit of a send path leaves it held by a
\* coroutine that is gone.
C18_GateIsLive ==
    /\ \A p \in Procs : (pc[p] = "wait") ~> (pc[p] = "write")
    /\ \A p \in Procs : (pc[p] \in InSection) ~> (pc[p] \notin InSection)
    /\ [](serial_locked => \E p \in Procs : pc[p] \in InSection)
    /\ [](~serial_locked /\ waiters = <<>> => \A p \in Procs : pc[p] # "wait")

\* the operator's command waits for the gate behind a relayed query that the
\* instrument has not answered
C18_Witness ==
    /\ pc["t1"] = "wait"
    /\ pc["c1"] = "read"
    /\ wire = <<>>
    /\ HasQuestionMark(cmd["t1"])

\* what _tcp_send and _usbtmc_send leave in the queue, the partial record and
\* the live values for the stripped line l: track_response(l), whatever l is
LocalOutcome(l) ==
    {<<st.pending_fields, st.collected, st.tui_values>> :
        st \in {track_response(l, Tracker, influx, ok) : ok \in BOOLEAN}}

\* C19: a tracked query is handled alike on both paths.  Whenever a coroutine
\* that has read a line for a tracked query ends its block, the queue, the
\* partial record and the live values are what the local path leaves for that
\* line: for the relay after an empty line, after the forwarding of a non-empty
\* one, and after track_response; for the local path after its read.
C19_LocalLikeRelay ==
    [][\A p \in Procs :
        /\ (/\ p \in Clients
            /\ ExpectedField(cmd[p]) # ""
            /\ pc[p] = "read" /\ wire # <<>> /\ wire' = Tail(wire)
            /\ pc'[p] = "recv") =>
                <<pending_fields', collected', tui_values'>>
                    \in LocalOutcome(Strip(Head(wire)))
        /\ (/\ p \in Clients
            /\ ExpectedField(cmd[p]) # ""
            /\ pc[p] \in {"send", "resolve"} /\ pc'[p] \in {"recv", "idle"}) =>
                <<pending_fields', collected', tui_values'>>
                    \in LocalOutcome(line[p])
        /\ (/\ p \in Locals
            /\ ExpectedField(cmd[p]) # ""
            /\ pc[p] = "read" /\ wire # <<>> /\ wire' = Tail(wire)
            /\ pc'[p] = "idle") =>
                <<pending_fields', collected', tui_values'>>
                    \in LocalOutcome(Strip(Head(wire)))]_vars

\* C20: a failed sink write is recovered.  The step whose write of a record
\* fails leaves the queue, the partial record (empty again) and the live values
\* as a successful write of the same record does, and it ends the block as
\* usual: the gate is released, the session stays as it was, and the handler is
\* back at "async for" for the next command.
C20_FailedWriteRecovered ==
    [][\A p \in Procs :
        (/\ \/ p \in Clients /\ pc[p] = "resolve" /\ pc'[p] # "resolve"
            \/ p \in Locals /\ pc[p] = "read" /\ pc'[p] # "read"
         /\ Len(emitted') > Len(emitted)
         /\ ~emitted'[Len(emitted')].ok) =>
            LET l == IF p \in Clients THEN line[p] ELSE Strip(Head(wire))
                good == track_response(l, Tracker, influx, TRUE)
            IN  /\ pending_fields' = good.pending_fields
                /\ pending_fields' = Tail(pending_fields)
                /\ collected' = good.collected
                /\ collected' = EmptyDict
                /\ tui_values' = good.tui_values
                /\ Len(good.emitted) = Len(emitted')
                /\ emitted'[Len(emitted')].fields =
                        good.emitted[Len(emitted')].fields
                /\ ~serial_locked'
                /\ pc'[p] = (IF p \in Clients THEN "recv" ELSE "idle")
                /\ UNCHANGED <<open, inbox, outbox, tui_client>>]_vars

\* the write of the first record failed, and the next query of the client was
\* relayed and its reply put into a new partial record
C20_Witness ==
    /\ emitted # <<>>
    /\ ~emitted[1].ok
    /\ DOMAIN collected = {"ch1_v"}
    /\ pc["c1"] = "recv"
    /\ open["c1"]

(***************************************************************************)
(* Properties of the partial record, the live values, the client row and   *)
(* the transport handle.                                                   *)
(***************************************************************************)
\* p takes a step that calls track_response: the relay after the frame was
\* sent, the local send right after its read
Resolves(p) ==
    \/ p \in Clients /\ pc[p] = "resolve" /\ pc'[p] # "resolve"
    \/ p \in Locals /\ pc[p] = "read" /\ pc'[p] = "idle"
                    /\ wire # <<>> /\ wire' = Tail(wire)

\* the line that step gives to track_response
Resolved(p) == IF p \in Clients THEN line[p] ELSE Strip(Head(wire))

\* C21: with the sink enabled, a number resolved to field f is put into the
\* Partial Record under f in place of any value f had there.  If that makes the
\* six fields, the same step writes one record, which holds the new value for f
\* and for each other field the value the Partial Record had, and empties the
\* Partial Record; if not, the step writes nothing.  No other step changes the
\* Partial Record or writes.
C21_LatestValueEmitted ==
    /\ [][\A p \in Procs :
            (/\ Resolves(p) /\ influx
             /\ pending_fields # <<>> /\ ~NotANumber(Resolved(p))) =>
                LET f == Head(pending_fields)
                    v == ParseFloat(Strip(Resolved(p))).val
                    col == [k \in (DOMAIN collected) \cup {f} |->
                                IF k = f THEN v ELSE collected[k]]
                IN  IF DOMAIN col = Fields
                    THEN /\ Len(emitted') = Len(emitted) + 1
                         /\ SubSeq(emitted', 1, Len(emitted)) = emitted
                         /\ emitted'[Len(emitted')].fields = col
                         /\ collected' = EmptyDict
                    ELSE /\ collected' = col
                         /\ emitted' = emitted]_vars
    /\ [][(collected' # collected \/ emitted' # emitted) =>
            \E p \in Procs : /\ Resolves(p) /\ influx /\ pending_fields # <<>>
                             /\ ~NotANumber(Resolved(p))]_vars

\* the operator's query for ch1_v got no reply, so ch1_v was put twice into the
\* Partial Record, first the reply to the client's voltage query and then the
\* reply to its current query: the record written holds the second
C21_Witness ==
    /\ result["t1"].resp = T_Timeout
    /\ tx # <<>> /\ tx[1] = Q_V1 \o <<"\n">>
    /\ Len(emitted) = 1
    /\ emitted[1].fields["ch1_v"] = FieldReading("ch1_i")

\* the polling session of SpecPoll, with the sink enabled or not
InitLive ==
    /\ InitRun
    /\ transport \in {"ethernet", "usbtmc"}
    /\ tui_active \in BOOLEAN
    /\ influx \in BOOLEAN
    /\ pc = [p \in Procs |-> IF p = "c1" THEN "recv" ELSE "idle"]
    /\ open = [p \in Clients |-> p = "c1"]
    /\ inbox = [p \in Clients |-> IF p = "c1" THEN PollScript ELSE <<>>]
    /\ tui_client = Peer["c1"]
    /\ quota = MaxExtra
    /\ glitches = MaxGlitch

NextLive == Run({"c1"})

SpecLive == InitLive /\ [][NextLive]_vars

\* C22: a live value is the last number resolved to its field, and unset before
\* the first.  A number resolved to field f becomes the live value of f and
\* leaves the other five as they are, with the sink enabled or not, and also in
\* the step that writes a record and empties the Partial Record; no other step
\* changes a live value.  So the live values outlast the record: the record
\* just written holds, field by field, the live values.
C22_LiveValuesAreLatest ==
    /\ [][\A p \in Procs :
            (/\ Resolves(p)
             /\ pending_fields # <<>> /\ ~NotANumber(Resolved(p))) =>
                tui_values' =
                    [k \in Fields |->
                        IF k = Head(pending_fields)
                        THEN ParseFloat(Strip(Resolved(p))).val
                        ELSE tui_values[k]]]_vars
    /\ [][tui_values' # tui_values =>
            \E p \in Procs : /\ Resolves(p) /\ pending_fields # <<>>
                             /\ ~NotANumber(Resolved(p))]_vars
    /\ [][emitted' # emitted =>
            \A k \in Fields :
                tui_values'[k] = emitted'[Len(emitted')].fields[k]]_vars
    /\ [](\A k \in Fields :
            k \in DOMAIN collected => tui_values[k] = collected[k])

\* a record was written, the Partial Record is empty again, and the six live
\* values are still those of the record
C22_Witness ==
    /\ Len(emitted) = 1
    /\ collected = EmptyDict
    /\ \A k \in Fields : tui_values[k] = emitted[1].fields[k]
    /\ pc["c1"] = "read"

\* the clients whose handler is running
ActiveSessions == {p \in Clients : pc[p] # "idle"}

\* C23: the client row shows "disconnected" exactly when no handler is running,
\* and otherwise names the peer of a running handler.
C23_ClientRowTracksSessions ==
    /\ (tui_client = None) <=> (ActiveSessions = {})
    /\ tui_client # None => \E p \in ActiveSessions : tui_client = Peer[p]

\* the session of p has ended: its handler has returned and the commands it
\* relayed are still on record (a new session of p starts a new record)
SessionOver(p) == pc[p] = "idle" /\ outbox[p] # <<>>

\* q calls write on the transport handle, or starts a read on it
UsesTransport(q) ==
    \/ pc[q] = "write" /\ pc'[q] # "write"
    \/ pc[q] # "read" /\ pc'[q] = "read"

\* C24: once a session that relayed a command has ended, by the client's close or
\* by an I/O error, no coroutine writes to the transport handle or starts a read
\* on it.
C24_NoTransportUseAfterSessionEnd ==
    [][(\E p \in Clients : SessionOver(p)) =>
            \A q \in Procs : ~UsesTransport(q)]_vars

=============================================================================
